---------------------------- MODULE Spec2Model ----------------------------
(***************************************************************************)
(* JobHunt: the application lifecycle (apply, withdraw, recruiter update,   *)
(* bulk update, admin status override), the derived job counters and the    *)
(* events each request emits.                                               *)
(*                                                                          *)
(* Every HTTP request runs in a request slot.  A slot advances one         *)
(* document-store operation (one await of the handler) at a time, so the    *)
(* steps of two slots interleave exactly where two requests of the Node     *)
(* process can interleave.  A step that answers a request puts the request, *)
(* with what it read and what it answered, in the variable last; every      *)
(* other step clears it.                                                    *)
(***************************************************************************)
EXTENDS Integers, Sequences, FiniteSets, TLC

(* ---------------------------- bounds ----------------------------------- *)
\* requests of the application lifecycle issued in one behaviour
MaxOps == 3
\* instants of the clock: 0 .. MaxTime
MaxTime == 2

(* ---------------------------- universe --------------------------------- *)
Students == {"s1", "s2"}
Recruiters == {"r1", "r2"}
\* the recruiters who post jobs; the others only call on jobs they do not own
Posters == {"r1"}
\* the students who have uploaded a resume before the first step
WithResume == {"s1"}
JobIds == {"j1"}
Slots == {1, 2}
\* the connections clients open, in the order they are opened
Sockets == {1, 2}
\* the users whose clients connect
Connecting == {"r1", "s1"}
\* the application ids requests name: those of the documents there can be (one
\* per student) and, while fewer exist, ids of no document
AppIds == {1, 2}
Times == 0..MaxTime
\* deadlines a recruiter posts: strictly inside the clock's range, so that
\* instants before, at and after the deadline all occur
Deadlines == {1}

\* applicationSchema.status enum
Enum == {"pending", "accepted", "rejected", "withdrawn"}
\* status values the request bodies of a behaviour carry: to the recruiter's
\* update, to the bulk update, and to the admin override (one of them outside
\* the enum)
UpdateStatuses == {"accepted", "rejected", "withdrawn"}
BulkStatuses == {"rejected"}
AdminStatuses == {"pending", "shortlisted"}

NoJob == [exists |-> FALSE, company |-> "", isActive |-> FALSE, deadline |-> 0,
          total |-> 0, accepted |-> 0, rejected |-> 0]

VARIABLES
  now,       \* the server clock (new Date())
  resume,    \* User.resume of each student: 0 = no resume, n > 0 = the n-th upload
  jobs,      \* the Job collection, by id
  jobUsed,   \* ids the Job collection has handed out (ObjectIds are never reused)
  apps,      \* the Application collection: apps[i] is the document with _id i
  req,       \* the request each slot is serving
  last,      \* the request the last step answered, Idle if it answered none
  started,   \* lifecycle requests issued so far
  sockets    \* the connections the socket server has had, in the order they opened

vars == <<now, resume, jobs, jobUsed, apps, req, last, started, sockets>>

(* ---------------------------- requests --------------------------------- *)
\* The locals of a handler: user (req.user.id), resume (req.user.resume), jid
\* (the job id), aid and ids (application ids), st (req.body.status), job (the
\* job document found, without its counters), seen, stu and owner (the statuses,
\* students and recruiter of the application documents found), counts (the
\* aggregate of the post-save hook), at (the clock read by new Date()), res (the
\* response), ev (the events emitted, in order), wrote (a write of the request
\* has reached the store), data and listed (the ids of the applications and of
\* the jobs in the response body).
Idle == [op |-> "none", pc |-> "idle", user |-> "", resume |-> 0, jid |-> "",
         aid |-> 0, ids |-> {}, st |-> "", job |-> NoJob, seen |-> {}, stu |-> {},
         owner |-> "", counts |-> <<0, 0, 0>>, at |-> 0,
         wrote |-> FALSE, res |-> "", ev |-> <<>>, data |-> {}, listed |-> {}]

\* a room of the socket server and the event sent to it
Event(prefix, id, kind) == [prefix |-> prefix, id |-> id, kind |-> kind]

\* the name of the room an event is sent to: io.to(`${prefix}-${id}`), and
\* io.to(String(id)) where the handler puts no prefix
Room(e) == IF e.prefix = "" THEN e.id ELSE e.prefix \o "-" \o e.id

\* a connection as it opens: state is open or closed; rooms are the rooms it
\* has joined; received are the events it has been sent, in order
NoSocket == [state |-> "open", user |-> "", rooms |-> {}, received |-> <<>>]

\* (mutant of EmitOne: the event is sent twice)
EmitOneTwice(socks, e) ==
  [k \in DOMAIN socks |->
     IF socks[k].state = "open" /\ Room(e) \in socks[k].rooms
     THEN [socks[k] EXCEPT !.received = Append(Append(@, e), e)]
     ELSE socks[k]]

\* io.to(room).emit(kind, payload): the event goes to the connections that are
\* in the room now, and is kept nowhere
EmitOne(socks, e) ==
  [k \in DOMAIN socks |->
     IF socks[k].state = "open" /\ Room(e) \in socks[k].rooms
     THEN [socks[k] EXCEPT !.received = Append(@, e)]
     ELSE socks[k]]

RECURSIVE Emit(_, _)
\* the emits of a handler, in order
Emit(socks, ev) ==
  IF ev = <<>> THEN socks ELSE Emit(EmitOne(socks, Head(ev)), Tail(ev))

\* res.status(...).json(...): request r of slot p is answered and the slot is
\* free; the events r carries were emitted just before, in the same turn
Respond(p, r, result) ==
  /\ req' = [req EXCEPT ![p] = Idle]
  /\ last' = [r EXCEPT !.pc = "idle", !.res = result]
  /\ sockets' = Emit(sockets, r.ev)

\* request r of slot p goes on to its next store operation
Continue(p, r) ==
  /\ req' = [req EXCEPT ![p] = r]
  /\ last' = Idle
  /\ UNCHANGED sockets

Busy(p) == req[p].pc # "idle"
\* a new request is served by the first slot that serves none
Free(p) == ~Busy(p) /\ (\A q \in Slots : q < p => Busy(q)) /\ last = Idle
\* slot p is at the store operation pc of handler op
At(p, op, pc) == req[p].pc = pc /\ req[p].op = op /\ last = Idle

(* ---------------------------- the store -------------------------------- *)
AppIdx == 1..Len(apps)

\* (mutant of FindOne: a withdrawn document does not count)
FindOneNotWithdrawn(j, s) ==
  \E i \in AppIdx : apps[i].job = j /\ apps[i].student = s /\ apps[i].status # "withdrawn"

\* Application.findOne({ job, student })
FindOne(j, s) == \E i \in AppIdx : apps[i].job = j /\ apps[i].student = s

\* the $match / $group aggregate of the post('save') hook: documents of job j
\* per status
CountStatus(j, st) == Cardinality({i \in AppIdx : apps[i].job = j /\ apps[i].status = st})

\* the three counter values the hook computes from the aggregate
Aggregate(j) ==
  << CountStatus(j, "pending") + CountStatus(j, "accepted") + CountStatus(j, "rejected"),
     CountStatus(j, "accepted"),
     CountStatus(j, "rejected") >>

Init ==
  /\ now = 0
  /\ resume = [s \in Students |-> IF s \in WithResume THEN 1 ELSE 0]
  /\ jobs = [j \in JobIds |-> NoJob]
  /\ jobUsed = {}
  /\ apps = <<>>
  /\ req = [p \in Slots |-> Idle]
  /\ last = Idle
  /\ started = 0
  /\ sockets = <<>>

(* ------------------- environment: clock, users, jobs ------------------- *)
Tick ==
  /\ last = Idle
  /\ now < MaxTime
  /\ now' = now + 1
  /\ last' = Idle
  /\ UNCHANGED <<resume, jobs, jobUsed, apps, req, started, sockets>>

\* POST /api/student/resume: User.findByIdAndUpdate(req.user.id, { resume })
UploadResume(s) ==
  /\ last = Idle
  /\ resume[s] = 0
  /\ resume' = [resume EXCEPT ![s] = 1]
  /\ last' = Idle
  /\ UNCHANGED <<now, jobs, jobUsed, apps, req, started, sockets>>

\* the uploads a student makes in a behaviour: a first resume and one that
\* replaces it
Uploads == {1, 2}

\* POST /api/student/resume by a student who has a resume: the old file is
\* destroyed and User.resume is set to the new upload
ReuploadResume(s) ==
  /\ last = Idle
  /\ resume[s] > 0
  /\ resume[s] + 1 \in Uploads
  /\ resume' = [resume EXCEPT ![s] = @ + 1]
  /\ last' = Idle
  /\ UNCHANGED <<now, jobs, jobUsed, apps, req, started, sockets>>

\* POST /api/recruiter/jobs: Job.create with company = req.user.id
CreateJob(r, j, d) ==
  /\ last = Idle
  /\ j \notin jobUsed
  /\ jobUsed' = jobUsed \cup {j}
  /\ jobs' = [jobs EXCEPT ![j] = [exists |-> TRUE, company |-> r, isActive |-> TRUE,
                                  deadline |-> d, total |-> 0, accepted |-> 0,
                                  rejected |-> 0]]
  /\ last' = Idle
  /\ UNCHANGED <<now, resume, apps, req, started, sockets>>

\* PUT /api/recruiter/jobs/:id, the case that updates: the caller owns the job
\* and Job.findByIdAndUpdate(id, req.body) writes the paths of the body, here
\* company
EditJob(r, j, c) ==
  /\ last = Idle
  /\ jobs[j].exists
  /\ jobs[j].company = r
  /\ jobs' = [jobs EXCEPT ![j].company = c]
  /\ last' = Idle
  /\ UNCHANGED <<now, resume, jobUsed, apps, req, started, sockets>>

\* (mutant of DeleteJob: the applications of the job are deleted with it)
DeleteJobAndApplications(r, j) ==
  /\ last = Idle
  /\ jobs[j].exists
  /\ jobs[j].company = r
  /\ jobs' = [jobs EXCEPT ![j] = NoJob]
  /\ apps' = SelectSeq(apps, LAMBDA a : a.job # j)
  /\ last' = Idle
  /\ UNCHANGED <<now, resume, jobUsed, req, started, sockets>>

\* DELETE /api/recruiter/jobs/:id, the case that deletes: the caller owns the job
DeleteJob(r, j) ==
  /\ last = Idle
  /\ jobs[j].exists
  /\ jobs[j].company = r
  /\ jobs' = [jobs EXCEPT ![j] = NoJob]
  /\ last' = Idle
  /\ UNCHANGED <<now, resume, jobUsed, apps, req, started, sockets>>

\* PATCH /api/admin/jobs/:id/toggle
ToggleJob(j) ==
  /\ last = Idle
  /\ jobs[j].exists
  /\ jobs' = [jobs EXCEPT ![j].isActive = ~jobs[j].isActive]
  /\ last' = Idle
  /\ UNCHANGED <<now, resume, jobUsed, apps, req, started, sockets>>

(* --------------- Application model: index and save hooks --------------- *)
\* (mutant of UniqueIndexAllows: the index is not unique)
NoUniqueIndex(j, s) == TRUE

\* applicationSchema.index({ job: 1, student: 1 }, { unique: true }): the store
\* accepts the insert of (j, s) only if no document holds that pair
UniqueIndexAllows(j, s) == ~FindOne(j, s)

\* pre('save') for a new document: findOne on the pair, an Error if one exists
PreSaveRejects(j, s) == FindOne(j, s)

\* (mutant of NewApplication: the recruiter is taken from the caller)
NewApplicationOfCaller(j, s, owner, cv) ==
  [job |-> j, student |-> s, recruiter |-> s, status |-> "pending", resume |-> cv]

\* the document Application.create builds; status takes the schema default
NewApplication(j, s, owner, cv) ==
  [job |-> j, student |-> s, recruiter |-> owner, status |-> "pending", resume |-> cv]

\* post('save'), first half: Job.findById(doc.job) and, if the job is there, the
\* aggregate over the job's applications.  (Once findById has found the job the
\* only thing that can happen to it before the aggregate is its deletion, and
\* then the write below changes nothing; so the two reads are one step.)
HookRead(p) ==
  /\ req[p].pc = "hookRead"
  /\ last = Idle
  /\ IF jobs[req[p].jid].exists
     THEN Continue(p, [req[p] EXCEPT !.pc = "hookWrite", !.counts = Aggregate(req[p].jid)])
     ELSE Continue(p, [req[p] EXCEPT !.pc = "emit"])
  /\ UNCHANGED <<now, resume, jobs, jobUsed, apps, started>>

\* the counters Job.findByIdAndUpdate writes from the aggregate c
WithCounters(job, c) == [job EXCEPT !.total = c[1], !.accepted = c[2], !.rejected = c[3]]

\* post('save'), second half: Job.findByIdAndUpdate(doc.job, { counters });
\* a job deleted in between is not recreated
HookWrite(p) ==
  /\ req[p].pc = "hookWrite"
  /\ last = Idle
  /\ jobs' = IF jobs[req[p].jid].exists
             THEN [jobs EXCEPT ![req[p].jid] = WithCounters(@, req[p].counts)]
             ELSE jobs
  /\ Continue(p, [req[p] EXCEPT !.pc = "emit"])
  /\ UNCHANGED <<now, resume, jobUsed, apps, started>>

(* ----------------------- POST /api/jobs/:id/apply ---------------------- *)
\* (mutant of DeadlinePassed: the deadline instant itself counts as passed)
DeadlinePassedInclusive(t, d) == t >= d

\* new Date() > new Date(job.applicationDeadline)
DeadlinePassed(t, d) == t > d

\* (mutant of JobCheck: the deadline is checked before isActive)
JobCheckDeadlineFirst(job, t) ==
  IF ~job.exists THEN "NotFound"
  ELSE IF DeadlinePassed(t, job.deadline) THEN "DeadlinePassed"
  ELSE IF ~job.isActive THEN "Inactive"
  ELSE "ok"

\* the checks on the job, in the handler's order
JobCheck(job, t) ==
  IF ~job.exists THEN "NotFound"
  ELSE IF ~job.isActive THEN "Inactive"
  ELSE IF DeadlinePassed(t, job.deadline) THEN "DeadlinePassed"
  ELSE "ok"

\* the checks on the student, in the handler's order
StudentCheck(existing, cv) ==
  IF existing THEN "DuplicateApplication"
  ELSE IF cv = 0 THEN "MissingResume"
  ELSE "ok"

\* protect / authorize('student'): req.user is the student's document
ApplyStart(p, s, j) ==
  /\ started < MaxOps
  /\ Free(p)
  /\ started' = started + 1
  /\ Continue(p, [Idle EXCEPT !.op = "apply", !.pc = "findJob", !.user = s,
                              !.resume = resume[s], !.jid = j])
  /\ UNCHANGED <<now, resume, jobs, jobUsed, apps>>

\* Job.findById, then the existence, isActive and deadline checks
ApplyFindJob(p) ==
  /\ At(p, "apply", "findJob")
  /\ LET job == jobs[req[p].jid]
         r == [req[p] EXCEPT !.at = now, !.job = WithCounters(job, <<0, 0, 0>>)]
     IN IF JobCheck(job, now) = "ok"
        THEN Continue(p, [r EXCEPT !.pc = "findExisting"])
        ELSE Respond(p, r, JobCheck(job, now))
  /\ UNCHANGED <<now, resume, jobs, jobUsed, apps, started>>

\* (mutant of ApplyFindExisting: the resume is checked after the document has
\* been created)
ApplyFindExistingCreatesFirst(p) ==
  /\ At(p, "apply", "findExisting")
  /\ LET existing == FindOne(req[p].jid, req[p].user)
         r == req[p]
     IN IF existing
        THEN apps' = apps /\ Respond(p, r, "DuplicateApplication")
        ELSE IF r.resume = 0
        THEN /\ apps' = Append(apps, [job |-> r.jid, student |-> r.user,
                                       recruiter |-> r.job.company, status |-> "pending",
                                       resume |-> r.resume])
             /\ Respond(p, r, "MissingResume")
        ELSE apps' = apps /\ Continue(p, [r EXCEPT !.pc = "preSave"])
  /\ UNCHANGED <<now, resume, jobs, jobUsed, started>>

\* Application.findOne({ job, student }), then the resume check on req.user
ApplyFindExisting(p) ==
  /\ At(p, "apply", "findExisting")
  /\ LET existing == FindOne(req[p].jid, req[p].user)
         r == req[p]
     IN IF StudentCheck(existing, r.resume) = "ok"
        THEN Continue(p, [r EXCEPT !.pc = "preSave"])
        ELSE Respond(p, r, StudentCheck(existing, r.resume))
  /\ UNCHANGED <<now, resume, jobs, jobUsed, apps, started>>

\* Application.create, pre('save'): an Error thrown here lands in the handler's
\* catch, which answers 500
ApplyPreSave(p) ==
  /\ At(p, "apply", "preSave")
  /\ IF PreSaveRejects(req[p].jid, req[p].user)
     THEN Respond(p, req[p], "ServerError")
     ELSE Continue(p, [req[p] EXCEPT !.pc = "insert"])
  /\ UNCHANGED <<now, resume, jobs, jobUsed, apps, started>>

\* Application.create, the insert: the unique index refuses a second document
\* of the pair (E11000), which lands in the handler's catch as well
ApplyInsert(p) ==
  /\ At(p, "apply", "insert")
  /\ Len(apps) < Cardinality(AppIds)
  /\ LET r == req[p] IN
       IF UniqueIndexAllows(r.jid, r.user)
       THEN /\ apps' = Append(apps, NewApplication(r.jid, r.user, r.job.company, r.resume))
            /\ Continue(p, [r EXCEPT !.pc = "hookRead", !.wrote = TRUE,
                                     !.aid = Len(apps) + 1])
       ELSE /\ apps' = apps
            /\ Respond(p, r, "ServerError")
  /\ UNCHANGED <<now, resume, jobs, jobUsed, started>>

\* the room and event apply sends: io.to(`recruiter-${job.company}`)
ApplyEvents(owner) == << Event("recruiter", owner, "new-application") >>

\* after create: emit new-application, answer 201
ApplyEmit(p) ==
  /\ At(p, "apply", "emit")
  /\ Respond(p, [req[p] EXCEPT !.ev = ApplyEvents(req[p].job.company)], "Success")
  /\ UNCHANGED <<now, resume, jobs, jobUsed, apps, started>>

(* ------------------ PUT /api/applications/:id/withdraw ----------------- *)
\* (mutant of WithdrawAllowed: an accepted application can be withdrawn too)
WithdrawAllowedLoose(status) == status \in {"pending", "accepted"}

\* application.status !== 'pending' answers 400
WithdrawAllowed(status) == status = "pending"

\* protect / authorize('student'), then Application.findById and the existence,
\* ownership and status checks
WithdrawFind(p, s, a) ==
  /\ started < MaxOps
  /\ Free(p)
  /\ started' = started + 1
  /\ LET r == [Idle EXCEPT !.op = "withdraw", !.user = s, !.aid = a] IN
       IF a \notin AppIdx THEN Respond(p, r, "NotFound")
       ELSE LET app == apps[a]
                f == [r EXCEPT !.seen = {app.status}, !.jid = app.job, !.stu = {app.student},
                               !.owner = app.recruiter]
            IN IF app.student # s THEN Respond(p, f, "Forbidden")
               ELSE IF ~WithdrawAllowed(app.status) THEN Respond(p, f, "InvalidTransition")
               ELSE Continue(p, [f EXCEPT !.pc = "save"])
  /\ UNCHANGED <<now, resume, jobs, jobUsed, apps>>

\* (mutant of WithStatus: the write copies the student's resume anew)
WithStatusAndResume(app, st) ==
  [app EXCEPT !.status = st, !.resume = resume[app.student]]

\* the document after a write of its status: findByIdAndUpdate, updateMany and
\* the save of a loaded document all set the path by _id, whatever it holds now
WithStatus(app, st) == [app EXCEPT !.status = st]

\* application.status = 'withdrawn'; application.save(): the document is not
\* new, so pre('save') lets it pass
WithdrawSave(p) ==
  /\ At(p, "withdraw", "save")
  /\ apps' = [apps EXCEPT ![req[p].aid] = WithStatus(@, "withdrawn")]
  /\ Continue(p, [req[p] EXCEPT !.pc = "hookRead", !.wrote = TRUE])
  /\ UNCHANGED <<now, resume, jobs, jobUsed, started>>

\* io.to(`recruiter-${application.recruiter}`).emit('application-withdrawn')
WithdrawEvents(owner) == << Event("recruiter", owner, "application-withdrawn") >>

WithdrawEmit(p) ==
  /\ At(p, "withdraw", "emit")
  /\ Respond(p, [req[p] EXCEPT !.ev = WithdrawEvents(req[p].owner)], "Success")
  /\ UNCHANGED <<now, resume, jobs, jobUsed, apps, started>>

(* ---------------- PUT /api/recruiter/applications/:id ------------------ *)
\* protect / authorize('recruiter'), then
\* Application.findById(...).populate('job', 'company') and the existence and
\* ownership checks; a deleted job populates as null and application.job.company
\* throws into the handler's catch, which answers 500
UpdateFind(p, rc, a, st) ==
  /\ started < MaxOps
  /\ Free(p)
  /\ started' = started + 1
  /\ LET r == [Idle EXCEPT !.op = "update", !.user = rc, !.aid = a, !.st = st] IN
       IF a \notin AppIdx THEN Respond(p, r, "NotFound")
       ELSE LET app == apps[a]
                f == [r EXCEPT !.seen = {app.status}, !.jid = app.job, !.stu = {app.student},
                               !.owner = app.recruiter]
            IN IF ~jobs[app.job].exists THEN Respond(p, f, "ServerError")
               ELSE IF jobs[app.job].company # rc THEN Respond(p, f, "Forbidden")
               ELSE Continue(p, [f EXCEPT !.pc = "update"])
  /\ UNCHANGED <<now, resume, jobs, jobUsed, apps>>

\* io.to(`student-${application.student}`).emit('application-updated')
UpdateEvents(s) == << Event("student", s, "application-updated") >>

\* Application.findByIdAndUpdate(id, { status, ... }): no validator runs and no
\* save hook fires; then emit and answer
UpdateWrite(p) ==
  /\ At(p, "update", "update")
  /\ apps' = [apps EXCEPT ![req[p].aid] = WithStatus(@, req[p].st)]
  /\ Respond(p, [req[p] EXCEPT !.wrote = TRUE,
                               !.ev = UpdateEvents(apps[req[p].aid].student)], "Success")
  /\ UNCHANGED <<now, resume, jobs, jobUsed, started>>

(* ----------------- PUT /api/applications/bulk-update ------------------- *)
RECURSIVE Ascending(_)
\* the ids of a set in _id order
Ascending(S) ==
  IF S = {} THEN <<>>
  ELSE LET m == CHOOSE x \in S : \A y \in S : x <= y
       IN <<m>> \o Ascending(S \ {m})

\* (mutant of OwnedAmong: the find does not filter by recruiter)
OwnedAmongAnyRecruiter(ids, r) == ids \cap AppIdx

\* Application.find({ _id: { $in: ids }, recruiter })
OwnedAmong(ids, r) == {i \in ids \cap AppIdx : apps[i].recruiter = r}

\* protect / authorize('recruiter'), then the find and the length comparison
\* that must cover every id
BulkFind(p, rc, ids, st) ==
  /\ started < MaxOps
  /\ Free(p)
  /\ started' = started + 1
  /\ ids # {}
  /\ LET r == [Idle EXCEPT !.op = "bulk", !.user = rc, !.ids = ids, !.st = st] IN
       IF Cardinality(OwnedAmong(ids, rc)) # Cardinality(ids)
       THEN Respond(p, r, "Rejected")
       ELSE Continue(p, [r EXCEPT !.pc = "update", !.stu = {apps[i].student : i \in ids},
                                 !.seen = {apps[i].status : i \in ids}])
  /\ UNCHANGED <<now, resume, jobs, jobUsed, apps>>

\* one application-updated event per application found, to its student's room
BulkEvents(ids) ==
  LET order == Ascending(ids)
  IN [k \in 1..Len(order) |-> Event("student", apps[order[k]].student, "application-updated")]

\* Application.updateMany({ _id: { $in: ids } }, { status, ... }), then emit
BulkWrite(p) ==
  /\ At(p, "bulk", "update")
  /\ apps' = [i \in AppIdx |-> IF i \in req[p].ids THEN WithStatus(apps[i], req[p].st)
                                ELSE apps[i]]
  /\ Respond(p, [req[p] EXCEPT !.wrote = TRUE, !.ev = BulkEvents(req[p].ids)], "Success")
  /\ UNCHANGED <<now, resume, jobs, jobUsed, started>>

(* -------------- PATCH /api/admin/applications/:id/status --------------- *)
\* (mutant of AdminAllowed: every value is let through)
AdminAllowedAny(st) == TRUE

\* allowed.includes(status)
AdminAllowed(st) == st \in {"pending", "accepted", "rejected", "withdrawn"}

\* io.to(String(application.student)) and io.to(String(application.recruiter))
AdminEvents(app) == << Event("", app.student, "application-updated"),
                       Event("", app.recruiter, "application-updated") >>

\* the handler has one store operation, findByIdAndUpdate, so it is one step
AdminStatus(p, a, st) ==
  /\ started < MaxOps
  /\ Free(p)
  /\ started' = started + 1
  /\ LET r == [Idle EXCEPT !.op = "admin", !.aid = a, !.st = st] IN
       IF ~AdminAllowed(st)
       THEN /\ Respond(p, r, "BadRequest")
            /\ apps' = apps
       ELSE IF a \notin AppIdx
       THEN /\ Respond(p, r, "NotFound")
            /\ apps' = apps
       ELSE /\ apps' = [apps EXCEPT ![a] = WithStatus(@, st)]
            /\ Respond(p, [r EXCEPT !.wrote = TRUE, !.seen = {apps[a].status},
                                    !.ev = AdminEvents(apps[a])], "Success")
  /\ UNCHANGED <<now, resume, jobs, jobUsed>>

(* ------------ PUT and DELETE /api/recruiter/jobs/:id, as requests ------- *)
\* request bodies of the job edit: req.body goes to the update as it is, so it
\* may name any path of the job document
EditBodies == {[company |-> "r2"], [isActive |-> FALSE], [total |-> 2]}

\* the document after findByIdAndUpdate(id, body): the paths the body names
\* take the body's values
Patched(job, body) ==
  [f \in DOMAIN job |-> IF f \in DOMAIN body THEN body[f] ELSE job[f]]

\* (mutant of EditJobFind: no ownership check)
EditJobFindAnyRecruiter(p, rc, j) ==
  /\ Free(p)
  /\ LET r == [Idle EXCEPT !.op = "editJob", !.user = rc, !.jid = j] IN
       IF ~jobs[j].exists THEN Respond(p, r, "NotFound")
       ELSE Continue(p, [r EXCEPT !.pc = "write"])
  /\ UNCHANGED <<now, resume, jobs, jobUsed, apps, started>>

\* protect / authorize('recruiter'), then Job.findById and the existence and
\* ownership checks
EditJobFind(p, rc, j) ==
  /\ Free(p)
  /\ LET r == [Idle EXCEPT !.op = "editJob", !.user = rc, !.jid = j] IN
       IF ~jobs[j].exists THEN Respond(p, r, "NotFound")
       ELSE IF jobs[j].company # rc THEN Respond(p, r, "Forbidden")
       ELSE Continue(p, [r EXCEPT !.pc = "write"])
  /\ UNCHANGED <<now, resume, jobs, jobUsed, apps, started>>

\* Job.findByIdAndUpdate(req.params.id, req.body, { new, runValidators }), then
\* the answer; a job deleted since the find is not recreated.  The handler does
\* not look at the body before this call, so the body is an input of this step
EditJobWrite(p, body) ==
  /\ At(p, "editJob", "write")
  /\ jobs' = IF jobs[req[p].jid].exists
             THEN [jobs EXCEPT ![req[p].jid] = Patched(@, body)]
             ELSE jobs
  /\ Respond(p, [req[p] EXCEPT !.wrote = TRUE], "Success")
  /\ UNCHANGED <<now, resume, jobUsed, apps, started>>

\* protect / authorize('recruiter'), then Job.findById and the existence and
\* ownership checks
DeleteJobFind(p, rc, j) ==
  /\ Free(p)
  /\ LET r == [Idle EXCEPT !.op = "deleteJob", !.user = rc, !.jid = j] IN
       IF ~jobs[j].exists THEN Respond(p, r, "NotFound")
       ELSE IF jobs[j].company # rc THEN Respond(p, r, "Forbidden")
       ELSE Continue(p, [r EXCEPT !.pc = "write"])
  /\ UNCHANGED <<now, resume, jobs, jobUsed, apps, started>>

\* Job.findByIdAndDelete(req.params.id), then the answer; the applications of
\* the job are left as they are
DeleteJobWrite(p) ==
  /\ At(p, "deleteJob", "write")
  /\ jobs' = [jobs EXCEPT ![req[p].jid] = NoJob]
  /\ Respond(p, [req[p] EXCEPT !.wrote = TRUE], "Success")
  /\ UNCHANGED <<now, resume, jobUsed, apps, started>>

(* ------------------------- a publish that throws ----------------------- *)
\* io.to(...).emit(...) throws in POST /:id/apply: the call is inside the
\* handler's try, so its catch answers 500; the Application stays created
ApplyEmitThrows(p) ==
  /\ At(p, "apply", "emit")
  /\ Respond(p, req[p], "ServerError")
  /\ UNCHANGED <<now, resume, jobs, jobUsed, apps, started>>

\* the same in PUT /:id/withdraw, after application.save()
WithdrawEmitThrows(p) ==
  /\ At(p, "withdraw", "emit")
  /\ Respond(p, req[p], "ServerError")
  /\ UNCHANGED <<now, resume, jobs, jobUsed, apps, started>>

\* the same in PUT /api/recruiter/applications/:id, after findByIdAndUpdate
UpdateEmitThrows(p) ==
  /\ At(p, "update", "update")
  /\ apps' = [apps EXCEPT ![req[p].aid] = WithStatus(@, req[p].st)]
  /\ Respond(p, [req[p] EXCEPT !.wrote = TRUE], "ServerError")
  /\ UNCHANGED <<now, resume, jobs, jobUsed, started>>

\* the same in PUT /bulk-update, after updateMany, at the first emit
BulkEmitThrows(p) ==
  /\ At(p, "bulk", "update")
  /\ apps' = [i \in AppIdx |-> IF i \in req[p].ids THEN WithStatus(apps[i], req[p].st)
                                ELSE apps[i]]
  /\ Respond(p, [req[p] EXCEPT !.wrote = TRUE], "ServerError")
  /\ UNCHANGED <<now, resume, jobs, jobUsed, started>>

(* ----------------------------- sockets --------------------------------- *)
\* the room the client of user u joins on connect: `student-${userId}` or
\* `recruiter-${userId}`
JoinedRoom(u) ==
  IF u \in Students THEN "student-" \o u ELSE "recruiter-" \o u

\* the client of user u connects: io(url) opens a connection, the next id
ConnectSocket(k, u) ==
  /\ last = Idle
  /\ k = Len(sockets) + 1
  /\ sockets' = Append(sockets, [NoSocket EXCEPT !.user = u])
  /\ last' = Idle
  /\ UNCHANGED <<now, resume, jobs, jobUsed, apps, req, started>>

\* the client's connect handler emits join-room with the room of its user, and
\* the server's handler does socket.join(room)
JoinRoom(k) ==
  /\ last = Idle
  /\ k \in DOMAIN sockets
  /\ sockets[k].state = "open"
  /\ JoinedRoom(sockets[k].user) \notin sockets[k].rooms
  /\ sockets' = [sockets EXCEPT ![k].rooms = @ \cup {JoinedRoom(sockets[k].user)}]
  /\ last' = Idle
  /\ UNCHANGED <<now, resume, jobs, jobUsed, apps, req, started>>

\* the rooms of the channels of the users whose clients connect
Rooms == {JoinedRoom(u) : u \in Connecting}

\* a client emits join-room with a room name of its choosing: the server's
\* handler does socket.join(room) for whatever name it is sent, and knows no
\* identity of the connection
JoinRoomNamed(k, room) ==
  /\ last = Idle
  /\ k \in DOMAIN sockets
  /\ sockets[k].state = "open"
  /\ room \notin sockets[k].rooms
  /\ sockets' = [sockets EXCEPT ![k].rooms = @ \cup {room}]
  /\ last' = Idle
  /\ UNCHANGED <<now, resume, jobs, jobUsed, apps, req, started>>

\* the connection closes (newSocket.close(), or the network): it leaves its
\* rooms; a client that connects again does so on a new connection
DisconnectSocket(k) ==
  /\ last = Idle
  /\ k \in DOMAIN sockets
  /\ sockets[k].state = "open"
  /\ sockets' = [sockets EXCEPT ![k].state = "closed", ![k].rooms = {}]
  /\ last' = Idle
  /\ UNCHANGED <<now, resume, jobs, jobUsed, apps, req, started>>

(* ------------------------------ reads ---------------------------------- *)
\* req.user.role as protect sets it; optionalAuth leaves req.user unset for a
\* caller without a token
Role(u) ==
  IF u \in Students THEN "student"
  ELSE IF u \in Recruiters THEN "recruiter"
  ELSE "anonymous"

\* toString() of a path populate has filled: the path then holds the referenced
\* document, and the toString of a document is the text of its fields
PopulatedToString(u) == "{ _id: " \o u \o " }"

\* (mutant of GetApplication: no ownership check for recruiters)
GetApplicationOpen(p, u, a) ==
  /\ Free(p)
  /\ LET r == [Idle EXCEPT !.op = "getApplication", !.user = u, !.aid = a] IN
       IF a \notin AppIdx THEN Respond(p, r, "NotFound")
       ELSE IF Role(u) = "student" /\ PopulatedToString(apps[a].student) # u
       THEN Respond(p, r, "Forbidden")
       ELSE Respond(p, [r EXCEPT !.data = {a}], "Success")
  /\ UNCHANGED <<now, resume, jobs, jobUsed, apps, started>>

\* GET /api/applications/:id: findById with job, student and recruiter
\* populated, then the comparisons of application.student.toString() and
\* application.recruiter.toString() with req.user.id
GetApplication(p, u, a) ==
  /\ Free(p)
  /\ LET r == [Idle EXCEPT !.op = "getApplication", !.user = u, !.aid = a] IN
       IF a \notin AppIdx THEN Respond(p, r, "NotFound")
       ELSE IF Role(u) = "student" /\ PopulatedToString(apps[a].student) # u
       THEN Respond(p, r, "Forbidden")
       ELSE IF Role(u) = "recruiter" /\ PopulatedToString(apps[a].recruiter) # u
       THEN Respond(p, r, "Forbidden")
       ELSE Respond(p, [r EXCEPT !.data = {a}], "Success")
  /\ UNCHANGED <<now, resume, jobs, jobUsed, apps, started>>

\* the query the scoped routes build from req.user: student = caller for a
\* student, recruiter = caller for a recruiter
Scoped(u) ==
  IF Role(u) = "student" THEN {i \in AppIdx : apps[i].student = u}
  ELSE IF Role(u) = "recruiter" THEN {i \in AppIdx : apps[i].recruiter = u}
  ELSE AppIdx

\* a route that answers with a collection of applications: one find, one answer
ListAnswer(p, route, u, ids) ==
  /\ Free(p)
  /\ Respond(p, [Idle EXCEPT !.op = route, !.user = u, !.data = ids], "Success")
  /\ UNCHANGED <<now, resume, jobs, jobUsed, apps, started>>

\* GET /api/applications: protect, then Application.find() with no filter
ListApplications(p, u) == ListAnswer(p, "listApplications", u, AppIdx)

\* GET /api/applications/stats/overview: countDocuments over the scoped query
StatsOverview(p, u) == ListAnswer(p, "statsOverview", u, Scoped(u))

\* GET /api/applications/search: find over the scoped query
SearchApplications(p, u) == ListAnswer(p, "searchApplications", u, Scoped(u))

\* GET /api/student/applications: Application.find({ student: req.user.id })
StudentApplications(p, s) ==
  ListAnswer(p, "studentApplications", s, {i \in AppIdx : apps[i].student = s})

\* GET /api/recruiter/jobs/:id/applications: Job.findById, the ownership check
\* on job.company, then Application.find({ job })
JobApplications(p, rc, j) ==
  /\ Free(p)
  /\ LET r == [Idle EXCEPT !.op = "jobApplications", !.user = rc, !.jid = j] IN
       IF ~jobs[j].exists THEN Respond(p, r, "NotFound")
       ELSE IF jobs[j].company # rc THEN Respond(p, r, "Forbidden")
       ELSE Respond(p, [r EXCEPT !.data = {i \in AppIdx : apps[i].job = j}], "Success")
  /\ UNCHANGED <<now, resume, jobs, jobUsed, apps, started>>

\* the callers of the public job routes: users and, with no token, nobody
Callers == Students \cup Recruiters \cup {""}

\* Job.find({ isActive: true, ... })
ActiveJobs == {j \in JobIds : jobs[j].exists /\ jobs[j].isActive}

\* GET /api/jobs: optionalAuth, then Job.find over a query that starts from
\* { isActive: true }
ListJobs(p, u) ==
  /\ Free(p)
  /\ Respond(p, [Idle EXCEPT !.op = "listJobs", !.user = u, !.listed = ActiveJobs], "Success")
  /\ UNCHANGED <<now, resume, jobs, jobUsed, apps, started>>

\* GET /api/jobs/field/:field: Job.find({ field, isActive: true })
JobsByField(p) ==
  /\ Free(p)
  /\ Respond(p, [Idle EXCEPT !.op = "jobsByField", !.listed = ActiveJobs], "Success")
  /\ UNCHANGED <<now, resume, jobs, jobUsed, apps, started>>

\* GET /api/jobs/popular: the router matches GET /:id, registered before
\* /popular, with id = 'popular'; Job.findById('popular') fails to cast the id
\* and the handler's catch answers 500
PopularJobs(p) ==
  /\ Free(p)
  /\ Respond(p, [Idle EXCEPT !.op = "popularJobs"], "ServerError")
  /\ UNCHANGED <<now, resume, jobs, jobUsed, apps, started>>

\* (mutant of GetJob: no isActive check)
GetJobWhateverActive(p, u, j) ==
  /\ Free(p)
  /\ LET r == [Idle EXCEPT !.op = "getJob", !.user = u, !.jid = j] IN
       IF ~jobs[j].exists THEN Respond(p, r, "NotFound")
       ELSE Respond(p, [r EXCEPT !.listed = {j}], "Success")
  /\ UNCHANGED <<now, resume, jobs, jobUsed, apps, started>>

\* GET /api/jobs/:id: optionalAuth, Job.findById, 404 for no job and 404 for a
\* job that is not active, whoever calls
GetJob(p, u, j) ==
  /\ Free(p)
  /\ LET r == [Idle EXCEPT !.op = "getJob", !.user = u, !.jid = j] IN
       IF ~jobs[j].exists THEN Respond(p, r, "NotFound")
       ELSE IF ~jobs[j].isActive THEN Respond(p, r, "NotFound")
       ELSE Respond(p, [r EXCEPT !.listed = {j}], "Success")
  /\ UNCHANGED <<now, resume, jobs, jobUsed, apps, started>>

(* --------------------------- specification ----------------------------- *)
\* the caller reads the response; the server takes its next step after that
Receive ==
  /\ last # Idle
  /\ last' = Idle
  /\ UNCHANGED <<now, resume, jobs, jobUsed, apps, req, started, sockets>>

\* the steps of students, recruiters and the clock
Lifecycle ==
  \/ Receive
  \/ Tick
  \/ \E s \in Students : UploadResume(s)
  \/ \E r \in Posters, j \in JobIds, d \in Deadlines : CreateJob(r, j, d)
  \/ \E r \in Recruiters, j \in JobIds : DeleteJob(r, j)
  \/ \E j \in JobIds : ToggleJob(j)
  \/ \E p \in Slots, s \in Students, j \in JobIds : ApplyStart(p, s, j)
  \/ \E p \in Slots : ApplyFindJob(p)
  \/ \E p \in Slots : ApplyFindExisting(p)
  \/ \E p \in Slots : ApplyPreSave(p)
  \/ \E p \in Slots : ApplyInsert(p)
  \/ \E p \in Slots : HookRead(p)
  \/ \E p \in Slots : HookWrite(p)
  \/ \E p \in Slots : ApplyEmit(p)
  \/ \E p \in Slots, s \in Students, a \in AppIds : WithdrawFind(p, s, a)
  \/ \E p \in Slots : WithdrawSave(p)
  \/ \E p \in Slots : WithdrawEmit(p)
  \/ \E p \in Slots, r \in Recruiters, a \in AppIds, st \in UpdateStatuses : UpdateFind(p, r, a, st)
  \/ \E p \in Slots : UpdateWrite(p)
  \/ \E p \in Slots, r \in Recruiters, ids \in SUBSET AppIds, st \in BulkStatuses :
        BulkFind(p, r, ids, st)
  \/ \E p \in Slots : BulkWrite(p)

Next ==
  \/ Lifecycle
  \/ \E p \in Slots, a \in AppIds, st \in AdminStatuses : AdminStatus(p, a, st)

Spec == Init /\ [][Next]_vars

\* the behaviours in which the admin overrides no status
SpecNoAdmin == Init /\ [][Lifecycle]_vars

\* jobs are posted, edited, toggled and deleted and students apply to them
Posting ==
  \/ Receive
  \/ \E s \in Students : UploadResume(s)
  \/ \E r \in Posters, j \in JobIds, d \in Deadlines : CreateJob(r, j, d)
  \/ \E r \in Recruiters, j \in JobIds, c \in Recruiters : EditJob(r, j, c)
  \/ \E r \in Recruiters, j \in JobIds : DeleteJob(r, j)
  \/ \E j \in JobIds : ToggleJob(j)
  \/ \E p \in Slots, s \in Students, j \in JobIds : ApplyStart(p, s, j)
  \/ \E p \in Slots : ApplyFindJob(p)
  \/ \E p \in Slots : ApplyFindExisting(p)
  \/ \E p \in Slots : ApplyPreSave(p)
  \/ \E p \in Slots : ApplyInsert(p)
  \/ \E p \in Slots : HookRead(p)
  \/ \E p \in Slots : HookWrite(p)
  \/ \E p \in Slots : ApplyEmit(p)

\* posting, editing and applying
SpecPosting == Init /\ [][Posting]_vars

\* fetches of one application by students and recruiters
FetchApplication ==
  \E p \in Slots, u \in Students \cup Recruiters, a \in AppIds : GetApplication(p, u, a)

\* students upload resumes and apply to the jobs posted; every Application is
\* written by Application.create, whose post('save') hook recomputes
Applies ==
  \/ Receive
  \/ \E s \in Students : UploadResume(s)
  \/ \E r \in Posters, j \in JobIds, d \in Deadlines : CreateJob(r, j, d)
  \/ \E p \in Slots, s \in Students, j \in JobIds : ApplyStart(p, s, j)
  \/ \E p \in Slots : ApplyFindJob(p)
  \/ \E p \in Slots : ApplyFindExisting(p)
  \/ \E p \in Slots : ApplyPreSave(p)
  \/ \E p \in Slots : ApplyInsert(p)
  \/ \E p \in Slots : HookRead(p)
  \/ \E p \in Slots : HookWrite(p)
  \/ \E p \in Slots : ApplyEmit(p)

\* applies only, two of them at a time
SpecApplies == Init /\ [][Applies]_vars

\* a publish throws
PublishFailures ==
  \/ \E p \in Slots : ApplyEmitThrows(p)
  \/ \E p \in Slots : WithdrawEmitThrows(p)
  \/ \E p \in Slots : UpdateEmitThrows(p)
  \/ \E p \in Slots : BulkEmitThrows(p)

\* the lifecycle of students and recruiters with publishes that may throw
SpecPublishFails == Init /\ [][Lifecycle \/ PublishFailures]_vars

\* clients connect, join their room and disconnect
Connections ==
  \/ \E k \in Sockets, u \in Connecting : ConnectSocket(k, u)
  \/ \E k \in Sockets : JoinRoom(k)
  \/ \E k \in Sockets : DisconnectSocket(k)

\* students apply and withdraw
Applying ==
  \/ Receive
  \/ \E r \in Posters, j \in JobIds, d \in Deadlines : CreateJob(r, j, d)
  \/ \E p \in Slots, s \in WithResume, j \in JobIds : ApplyStart(p, s, j)
  \/ \E p \in Slots : ApplyFindJob(p)
  \/ \E p \in Slots : ApplyFindExisting(p)
  \/ \E p \in Slots : ApplyPreSave(p)
  \/ \E p \in Slots : ApplyInsert(p)
  \/ \E p \in Slots : HookRead(p)
  \/ \E p \in Slots : HookWrite(p)
  \/ \E p \in Slots : ApplyEmit(p)
  \/ \E p \in Slots, s \in WithResume, a \in AppIds : WithdrawFind(p, s, a)
  \/ \E p \in Slots : WithdrawSave(p)
  \/ \E p \in Slots : WithdrawEmit(p)
  \/ \E p \in Slots, r \in Posters, a \in AppIds, st \in BulkStatuses : UpdateFind(p, r, a, st)
  \/ \E p \in Slots : UpdateWrite(p)

\* a student's withdraw and the recruiter's update, one beside the other
SpecApplying == Init /\ [][Applying]_vars

\* applying, withdrawing and reviewing while clients come and go
SpecSockets == Init /\ [][Applying \/ Connections]_vars

\* clients that send join-room with the name of any user's room
NamedJoins == \E k \in Sockets, room \in Rooms : JoinRoomNamed(k, room)

\* applying, withdrawing and reviewing while clients join rooms of their choosing
SpecAnyRoom == Init /\ [][Applying \/ Connections \/ NamedJoins]_vars

\* a status value outside applicationSchema.status enum, as a request body
\* can carry it
Unlisted == {"shortlisted"}

\* the three routes that set a status, each called with an unlisted value
Reviewing ==
  \/ \E p \in Slots, r \in Posters, a \in AppIds, st \in Unlisted : UpdateFind(p, r, a, st)
  \/ \E p \in Slots, r \in Posters, ids \in SUBSET AppIds, st \in Unlisted :
        BulkFind(p, r, ids, st)
  \/ \E p \in Slots : BulkWrite(p)
  \/ \E p \in Slots, a \in AppIds, st \in Unlisted : AdminStatus(p, a, st)

\* applying and withdrawing, with status changes of any value
SpecReview == Init /\ [][Applying \/ Reviewing]_vars

\* the requests that change one job
JobRequests ==
  \/ \E p \in Slots, r \in Recruiters, j \in JobIds : EditJobFind(p, r, j)
  \/ \E p \in Slots, body \in EditBodies : EditJobWrite(p, body)
  \/ \E p \in Slots, r \in Recruiters, j \in JobIds : DeleteJobFind(p, r, j)
  \/ \E p \in Slots : DeleteJobWrite(p)

\* the requests that change one application, from its owners and from others
Owning ==
  \/ Receive
  \/ \E r \in Posters, j \in JobIds, d \in Deadlines : CreateJob(r, j, d)
  \/ \E p \in Slots, s \in WithResume, j \in JobIds : ApplyStart(p, s, j)
  \/ \E p \in Slots : ApplyFindJob(p)
  \/ \E p \in Slots : ApplyFindExisting(p)
  \/ \E p \in Slots : ApplyPreSave(p)
  \/ \E p \in Slots : ApplyInsert(p)
  \/ \E p \in Slots : HookRead(p)
  \/ \E p \in Slots : HookWrite(p)
  \/ \E p \in Slots : ApplyEmit(p)
  \/ \E p \in Slots, s \in Students, a \in AppIds : WithdrawFind(p, s, a)
  \/ \E p \in Slots : WithdrawSave(p)
  \/ \E p \in Slots : WithdrawEmit(p)
  \/ \E p \in Slots, r \in Recruiters, a \in AppIds, st \in BulkStatuses : UpdateFind(p, r, a, st)
  \/ \E p \in Slots : UpdateWrite(p)

\* jobs and applications changed by their owners and refused to others
SpecOwners == Init /\ [][Owning \/ JobRequests]_vars

\* students upload and replace resumes
Resumes ==
  \/ \E s \in Students : UploadResume(s)
  \/ \E s \in Students : ReuploadResume(s)

\* bulk updates by the job's recruiter and status overrides by the admin
Overrides ==
  \/ \E p \in Slots, r \in Posters, ids \in SUBSET AppIds, st \in BulkStatuses :
        BulkFind(p, r, ids, st)
  \/ \E p \in Slots : BulkWrite(p)
  \/ \E p \in Slots, a \in AppIds, st \in AdminStatuses : AdminStatus(p, a, st)

\* every operation on an Application, while students replace their resumes
SpecResumes == Init /\ [][Applying \/ Resumes \/ Overrides]_vars

\* the admin override called with every value of the enum and one outside it
AdminAny ==
  \E p \in Slots, a \in AppIds, st \in Enum \cup Unlisted : AdminStatus(p, a, st)

\* applying, withdrawing and reviewing, with overrides by the admin
SpecAdmin == Init /\ [][Applying \/ AdminAny]_vars

\* the state after s1 has applied to j1 of r1 and withdrawn, both requests
\* answered and received: the Application is withdrawn and the recompute of
\* the withdraw has set the counters of j1 back to 0
InitWithdrawn ==
  /\ now = 0
  /\ resume = [s \in Students |-> IF s \in WithResume THEN 1 ELSE 0]
  /\ jobs = [j \in JobIds |-> [exists |-> TRUE, company |-> "r1", isActive |-> TRUE,
                                deadline |-> 1, total |-> 0, accepted |-> 0,
                                rejected |-> 0]]
  /\ jobUsed = JobIds
  /\ apps = << WithStatus(NewApplication("j1", "s1", "r1", 1), "withdrawn") >>
  /\ req = [p \in Slots |-> Idle]
  /\ last = Idle
  /\ started = 2
  /\ sockets = <<>>

\* what follows a withdrawal: the clock advances, the job is edited, switched
\* off or deleted, and students apply
Reapplying ==
  \/ Receive
  \/ Tick
  \/ \E s \in Students : UploadResume(s)
  \/ \E r \in Recruiters, j \in JobIds, c \in Recruiters : EditJob(r, j, c)
  \/ \E r \in Recruiters, j \in JobIds : DeleteJob(r, j)
  \/ \E j \in JobIds : ToggleJob(j)
  \/ \E p \in Slots, s \in Students, j \in JobIds : ApplyStart(p, s, j)
  \/ \E p \in Slots : ApplyFindJob(p)
  \/ \E p \in Slots : ApplyFindExisting(p)
  \/ \E p \in Slots : ApplyPreSave(p)
  \/ \E p \in Slots : ApplyInsert(p)
  \/ \E p \in Slots : HookRead(p)
  \/ \E p \in Slots : HookWrite(p)
  \/ \E p \in Slots : ApplyEmit(p)

\* the behaviours that start after a withdrawal
SpecAfterWithdraw == InitWithdrawn /\ [][Reapplying]_vars

\* the routes that answer with a collection of applications
ListingApplications ==
  \/ \E p \in Slots, u \in Students \cup Recruiters : ListApplications(p, u)
  \/ \E p \in Slots, u \in Students \cup Recruiters : StatsOverview(p, u)
  \/ \E p \in Slots, u \in Students \cup Recruiters : SearchApplications(p, u)
  \/ \E p \in Slots, s \in Students : StudentApplications(p, s)
  \/ \E p \in Slots, r \in Recruiters, j \in JobIds : JobApplications(p, r, j)

\* posting and applying, with listings of applications
SpecListApplications == Init /\ [][Posting \/ ListingApplications]_vars

\* the public routes that answer with jobs
ReadingJobs ==
  \/ \E p \in Slots, u \in Callers : ListJobs(p, u)
  \/ \E p \in Slots : JobsByField(p)
  \/ \E p \in Slots : PopularJobs(p)
  \/ \E p \in Slots, u \in Callers, j \in JobIds : GetJob(p, u, j)

\* posting and applying, with the public job routes
SpecReadJobs == Init /\ [][Posting \/ ReadingJobs]_vars

\* posting and applying, with fetches of single applications
SpecFetchApplication == Init /\ [][Posting \/ FetchApplication]_vars

(* ------------------------------ claims --------------------------------- *)
Terminal == {"accepted", "rejected", "withdrawn"}
ApplyFailures == {"NotFound", "Inactive", "DeadlinePassed", "DuplicateApplication",
                  "MissingResume"}
\* no request is being served
Quiescent == \A p \in Slots : ~Busy(p)
\* the applications of job j whose status is in S
CountIn(j, S) == Cardinality({i \in AppIdx : apps[i].job = j /\ apps[i].status \in S})
\* the answered request passed the job checks of apply and carried a resume
PassedJobAndResume ==
  /\ last.job.exists /\ last.job.isActive /\ last.at <= last.job.deadline
  /\ last.resume # 0

\* C1: in every reachable state, whatever the interleaving of apply, withdraw,
\* recruiter update, bulk update and admin override, no two Applications have
\* the same (job, student) pair.
C1_OneApplicationPerPair ==
  \A i, k \in AppIdx :
     (apps[i].job = apps[k].job /\ apps[i].student = apps[k].student) => i = k

\* C1 witness: a second insert of a pair reached the store and was refused
C1_DuplicateInsertRefused ==
  /\ last.op = "apply" /\ last.res = "ServerError"
  /\ PassedJobAndResume /\ FindOne(last.jid, last.user)

\* C2 (as claimed): an apply that passed the job checks and carried a resume, and
\* that is refused because an Application of its pair exists, is answered with
\* the duplicate-application conflict, also when it lost a race with a
\* concurrent apply of the same student for the same job.
C2_LoserGetsDuplicateConflict ==
  (last.op = "apply" /\ last.res # "Success" /\ PassedJobAndResume)
     => last.res = "DuplicateApplication"

\* the answer of a withdraw by the student of an existing Application, against
\* the status it read
C3_WithdrawState ==
  (last.op = "withdraw" /\ last.aid \in AppIdx /\ last.stu = {last.user}) =>
     /\ last.res = "Success" <=> last.seen = {"pending"}
     /\ last.res = "InvalidTransition" <=> last.seen # {"pending"}
     /\ last.res = "InvalidTransition" =>
          ~last.wrote /\ {apps[last.aid].status} = last.seen
     /\ last.res = "Success" => last.wrote

\* the write of a withdraw sets the status of its Application, and nothing else
C3_WithdrawWrite ==
  \A p \in Slots :
     (req[p].op = "withdraw" /\ req[p].pc = "save" /\ req'[p].pc # "save") =>
        /\ apps'[req[p].aid].status = "withdrawn"
        /\ \A i \in AppIdx \ {req[p].aid} : apps'[i] = apps[i]

\* C3: a withdraw by the student of an existing Application succeeds exactly
\* when the status it read is pending and fails with InvalidTransition exactly
\* when it is not; a failed one has written nothing and the status is as it was
\* read; the write of a successful one sets the status to withdrawn.
C3_WithdrawIffPending == []C3_WithdrawState /\ [][C3_WithdrawWrite]_vars

\* C3 witness: a withdraw of an accepted Application by its student was refused
C3_WithdrawOfAcceptedRefused ==
  /\ last.op = "withdraw" /\ last.res = "InvalidTransition"
  /\ last.seen = {"accepted"} /\ last.stu = {last.user}

\* C4 (as claimed): a recruiter update, bulk update or withdraw that finds an
\* Application it may act on in status accepted, rejected or withdrawn fails
\* with InvalidTransition and writes nothing.
C4_NoTransitionOutOfTerminal ==
  ( /\ last.op \in {"update", "bulk", "withdraw"}
    /\ last.seen \cap Terminal # {}
    /\ last.res \notin {"NotFound", "Forbidden", "Rejected", "ServerError"} )
     => (last.res = "InvalidTransition" /\ ~last.wrote)

\* C5 (as claimed): when no request is being served, the totalApplications of
\* every job equals the number of its Applications that are pending, accepted
\* or rejected.
C5_TotalMatchesApplications ==
  Quiescent =>
     \A j \in JobIds :
        jobs[j].exists => jobs[j].total = CountIn(j, {"pending", "accepted", "rejected"})

\* C6 (as claimed): when the owning recruiter's update has set an Application to
\* accepted (rejected) and no other request is being served, the job's
\* acceptedApplications (rejectedApplications) equals the number of its
\* Applications with that status.
C6_CounterFollowsUpdate ==
  (last.op = "update" /\ last.res = "Success" /\ Quiescent /\ jobs[last.jid].exists) =>
     /\ last.st = "accepted" => jobs[last.jid].accepted = CountIn(last.jid, {"accepted"})
     /\ last.st = "rejected" => jobs[last.jid].rejected = CountIn(last.jid, {"rejected"})

\* the preconditions of apply that do not hold, given the job document, the
\* clock, whether an Application of the pair exists and the resume reference
Failing(job, t, existing, cv) ==
  {x \in {"NotFound"} : ~job.exists}
  \cup {x \in {"Inactive"} : job.exists /\ ~job.isActive}
  \cup {x \in {"DeadlinePassed"} : job.exists /\ t > job.deadline}
  \cup {x \in {"DuplicateApplication"} : existing}
  \cup {x \in {"MissingResume"} : cv = 0}

\* the first of a set of failures in the order of the specification
FirstOf(F) ==
  IF "NotFound" \in F THEN "NotFound"
  ELSE IF "Inactive" \in F THEN "Inactive"
  ELSE IF "DeadlinePassed" \in F THEN "DeadlinePassed"
  ELSE IF "DuplicateApplication" \in F THEN "DuplicateApplication"
  ELSE IF "MissingResume" \in F THEN "MissingResume"
  ELSE "none"

\* what did not hold when the answered apply was answered: the job as the
\* handler read it, the clock at its deadline check, the pair and the resume
LastFailing == Failing(last.job, last.at, FindOne(last.jid, last.user), last.resume)

\* C7: an apply that is refused on a precondition is answered with the first, in
\* the order job exists, job active, deadline not passed, no Application of
\* the pair, resume present, of the preconditions that do not hold; an apply
\* that gets past the checks had none failing.
C7_FirstFailureWins ==
  last.op = "apply" =>
     /\ last.res \in ApplyFailures => last.res = FirstOf(LastFailing)
     /\ last.res \notin ApplyFailures => PassedJobAndResume

\* C7 witness: an apply with three preconditions failing at once got the first
C7_SeveralFailInactiveWins ==
  /\ last.op = "apply" /\ last.res = "Inactive"
  /\ LastFailing = {"Inactive", "DeadlinePassed", "MissingResume"}

\* C8: for a job that exists and is active, apply answers DeadlinePassed exactly
\* when the clock at its check is strictly after the deadline; at or before the
\* deadline, with a resume and unless an Application of the pair stands in the
\* way, it succeeds.
C8_DeadlineIsStrict ==
  (last.op = "apply" /\ last.job.exists /\ last.job.isActive) =>
     /\ last.res = "DeadlinePassed" <=> last.at > last.job.deadline
     /\ ( /\ last.at <= last.job.deadline
          /\ last.resume # 0
          /\ last.res \notin {"DuplicateApplication", "ServerError"} )
          => last.res = "Success"

\* C8 witness: an apply checked at the deadline instant succeeded
C8_AppliedAtDeadline ==
  /\ last.op = "apply" /\ last.res = "Success"
  /\ last.job.exists /\ last.at = last.job.deadline

\* what a successful apply has stored and emitted
C9_SuccessfulApplyState ==
  (last.op = "apply" /\ last.res = "Success") =>
     /\ last.wrote
     /\ last.aid \in AppIdx
     /\ apps[last.aid].job = last.jid
     /\ apps[last.aid].student = last.user
     /\ apps[last.aid].recruiter = last.job.company
     /\ apps[last.aid].resume = last.resume
     /\ \A i \in AppIdx :
          (apps[i].job = last.jid /\ apps[i].student = last.user) => i = last.aid
     /\ last.ev = << [prefix |-> "recruiter", id |-> last.job.company,
                      kind |-> "new-application"] >>

\* the steps of an apply change the Applications only by the one insert
C9_ApplyCreatesOnePending ==
  \A p \in Slots :
     (req[p].op = "apply" /\ req'[p] # req[p]) =>
        IF req[p].pc = "insert" /\ req'[p].pc = "hookRead"
        THEN apps' = Append(apps, [job |-> req[p].jid, student |-> req[p].user,
                                   recruiter |-> req[p].job.company,
                                   status |-> "pending", resume |-> req[p].resume])
        ELSE apps' = apps

\* C9: a successful apply has created the Application of its pair, with the
\* recruiter of the job document it read and the resume of the student document
\* it read, and has emitted one new-application event to the room of that
\* recruiter; the step of apply that creates adds one pending document and no
\* other step of apply adds or changes a document.
C9_SuccessfulApply == []C9_SuccessfulApplyState /\ [][C9_ApplyCreatesOnePending]_vars

\* C9 witness: an apply succeeded and its Application is pending
C9_ApplySucceeded ==
  /\ last.op = "apply" /\ last.res = "Success"
  /\ last.aid \in AppIdx /\ apps[last.aid].status = "pending"
  /\ Len(last.ev) = 1

\* what a refused apply has stored and emitted
C10_RefusedApplyState ==
  (last.op = "apply" /\ last.res \in ApplyFailures) =>
     /\ ~last.wrote
     /\ last.ev = <<>>
     /\ (last.resume = 0 /\ LastFailing = {"MissingResume"}) => last.res = "MissingResume"

\* the step that refuses an apply leaves the store as it was
C10_RefusalChangesNothing ==
  (last' # Idle /\ last'.op = "apply" /\ last'.res \in ApplyFailures) =>
     (apps' = apps /\ jobs' = jobs)

\* C10: an apply refused on a precondition has written nothing and emitted no
\* event, and the step that refuses it leaves every Application and every job
\* as it was; a student without a resume whose other preconditions hold gets
\* MissingResume.
C10_RefusedApplyChangesNothing ==
  []C10_RefusedApplyState /\ [][C10_RefusalChangesNothing]_vars

\* C10 witness: a student with no resume was refused with MissingResume
C10_NoResumeRefused ==
  /\ last.op = "apply" /\ last.res = "MissingResume"
  /\ last.resume = 0 /\ ~FindOne(last.jid, last.user)

\* the answer of a bulk update against the ids it named: refused exactly when
\* some id names no Application of the caller, and then nothing was written or
\* emitted; accepted, every Application named has the status of the request
C11_BulkState ==
  last.op = "bulk" =>
     /\ last.res \in {"Rejected", "Success"}
     /\ last.res = "Rejected" <=>
          \E i \in last.ids : i \notin AppIdx \/ apps[i].recruiter # last.user
     /\ last.res = "Rejected" => (~last.wrote /\ last.ev = <<>>)
     /\ last.res = "Success" =>
          /\ \A i \in last.ids : apps[i].status = last.st
          /\ Len(last.ev) = Cardinality(last.ids)

\* a step of a bulk update changes every Application it named or none: the
\* refusal changes none, the write sets the status of all of them and of no other
C11_BulkStep ==
  /\ (last' # Idle /\ last'.op = "bulk" /\ last'.res = "Rejected") => apps' = apps
  /\ \A p \in Slots :
       (req[p].op = "bulk" /\ req'[p] # req[p]) =>
          /\ req[p].ids \subseteq AppIdx
          /\ apps' = [i \in AppIdx |-> IF i \in req[p].ids
                                       THEN [apps[i] EXCEPT !.status = req[p].st]
                                       ELSE apps[i]]

\* C11: a bulk update is all-or-nothing: if an id it names is of no Application
\* or of an Application of another recruiter the call is refused, changes no
\* Application and emits no event; otherwise its write changes every
\* Application named, so no call changes a strict subset of them.
C11_BulkAllOrNothing == []C11_BulkState /\ [][C11_BulkStep]_vars

\* C11 witness: a bulk update naming one Application of the caller and one id
\* that is not the caller's was refused
C11_MixedBulkRefused ==
  /\ last.op = "bulk" /\ last.res = "Rejected"
  /\ \E i \in last.ids : i \in AppIdx /\ apps[i].recruiter = last.user
  /\ \E i \in last.ids : i \notin AppIdx

\* C12: a fetch of one Application by id answers NotFound exactly when no
\* Application has the id, and Forbidden when the caller is a recruiter who is
\* not the owner of the Application's job; neither answer carries an
\* Application.
C12_FetchForbiddenOrNotFound ==
  last.op = "getApplication" =>
     /\ last.res = "NotFound" <=> last.aid \notin AppIdx
     /\ ( /\ last.aid \in AppIdx
          /\ Role(last.user) = "recruiter"
          /\ jobs[apps[last.aid].job].company # last.user ) => last.res = "Forbidden"
     /\ last.res \in {"NotFound", "Forbidden"} => last.data = {}

\* C12 witness: a recruiter fetched an Application of a job another recruiter
\* owns and was refused
C12_OtherRecruiterRefused ==
  /\ last.op = "getApplication" /\ last.res = "Forbidden"
  /\ Role(last.user) = "recruiter"
  /\ last.aid \in AppIdx
  /\ jobs[apps[last.aid].job].exists
  /\ jobs[apps[last.aid].job].company # last.user
  /\ apps[last.aid].recruiter # last.user

ListRoutes == {"listApplications", "statsOverview", "searchApplications",
               "studentApplications", "jobApplications"}

\* C13 (as claimed): every route that answers with a collection of Applications
\* gives a student only Applications whose student is the caller and a
\* recruiter only Applications whose recruiter is the caller.
C13_ListsAreScoped ==
  last.op \in ListRoutes =>
     \A i \in last.data :
        /\ Role(last.user) = "student" => apps[i].student = last.user
        /\ Role(last.user) = "recruiter" => apps[i].recruiter = last.user

\* C14: the job lists hold only jobs whose isActive is true, and the public list
\* and the by-field list hold every such job; a fetch by id of an existing job
\* whose isActive is false answers NotFound, without the job, to every caller
\* who does not own it; a fetch of a job whose isActive is true (so also of one
\* switched off and on again) answers with the job.
C14_InactiveJobsHidden ==
  /\ last.op \in {"listJobs", "jobsByField", "popularJobs"} =>
        \A j \in last.listed : jobs[j].exists /\ jobs[j].isActive
  /\ last.op \in {"listJobs", "jobsByField"} =>
        \A j \in JobIds : (jobs[j].exists /\ jobs[j].isActive) => j \in last.listed
  /\ last.op = "getJob" =>
        /\ ( /\ jobs[last.jid].exists /\ ~jobs[last.jid].isActive
             /\ jobs[last.jid].company # last.user )
             => (last.res = "NotFound" /\ last.listed = {})
        /\ (jobs[last.jid].exists /\ jobs[last.jid].isActive)
             => (last.res = "Success" /\ last.listed = {last.jid})

\* C14 witness: a student fetched an existing job that is switched off and got
\* NotFound
C14_InactiveJobNotFound ==
  /\ last.op = "getJob" /\ last.res = "NotFound"
  /\ Role(last.user) = "student"
  /\ jobs[last.jid].exists /\ ~jobs[last.jid].isActive

\* the applications a request that emits acts on
Targets == IF last.op = "bulk" THEN last.ids ELSE {last.aid} \cap AppIdx

\* C15 (as claimed): every application-updated event a request has emitted, be
\* it a recruiter update, a bulk update or an admin override, went to the room
\* the client of the student of an Application of the request joins, and every
\* application-withdrawn event to the room the client of the Application's
\* recruiter joins.
C15_EventsGoToJoinedRooms ==
  \A k \in 1..Len(last.ev) :
     /\ last.ev[k].kind = "application-updated" =>
          \E i \in Targets : Room(last.ev[k]) = JoinedRoom(apps[i].student)
     /\ last.ev[k].kind = "application-withdrawn" =>
          \E i \in Targets : Room(last.ev[k]) = JoinedRoom(apps[i].recruiter)

\* the events of ev addressed to a room among rooms, in order
Addressed(ev, rooms) == SelectSeq(ev, LAMBDA e : Room(e) \in rooms)

\* what a connection has received changes only in the step that emits, only for
\* a connection open at that step, and by exactly the events of that step
\* addressed to a room the connection is in at that step, each once
C16_ReceivedOnlyWhenEmitted ==
  \A k \in DOMAIN sockets :
     /\ sockets'[k].received # sockets[k].received =>
          /\ last' # Idle
          /\ sockets[k].state = "open"
     /\ last' # Idle =>
          sockets'[k].received =
             IF sockets[k].state = "open"
             THEN sockets[k].received \o Addressed(last'.ev, sockets[k].rooms)
             ELSE sockets[k].received

\* a connection that opens has received nothing
C16_NewConnectionIsEmpty ==
  \A k \in DOMAIN sockets' : k \notin DOMAIN sockets => sockets'[k].received = <<>>

\* C16: delivery is at-most-once and fire-and-forget: an event reaches only the
\* connections that are in its room when it is emitted, each once; it is kept
\* nowhere, so a connection opened or joined later, the recipient's reconnection
\* included, never receives it.
C16_AtMostOnceDelivery ==
  [][C16_NewConnectionIsEmpty /\ C16_ReceivedOnlyWhenEmitted]_vars

\* C16 witness: the recruiter's first connection received the new-application
\* event of an apply and was closed; the withdraw of that Application has been
\* answered, and its event emitted, with the recruiter in no room; the
\* recruiter's second connection has joined its room and has received nothing
C16_MissedWhileDisconnected ==
  /\ Len(apps) = 1 /\ apps[1].status = "withdrawn" /\ Quiescent /\ last = Idle
  /\ Len(sockets) = 2
  /\ sockets[1].state = "closed" /\ sockets[1].user = "r1"
  /\ Len(sockets[1].received) = 1
  /\ sockets[1].received[1].kind = "new-application"
  /\ sockets[2].state = "open" /\ sockets[2].user = "r1"
  /\ JoinedRoom("r1") \in sockets[2].rooms
  /\ sockets[2].received = <<>>

\* C17 (as claimed): an apply, withdraw, recruiter update or bulk update whose
\* change has been written reports success to its caller, also when the
\* publish of its event throws.
C17_WrittenMeansSuccess ==
  (last.op \in {"apply", "withdraw", "update", "bulk"} /\ last.wrote)
     => last.res = "Success"

\* C18 (as claimed): when the operations that created or changed Applications
\* of a job, each followed by its recompute, have all completed, the job's
\* totalApplications, acceptedApplications and rejectedApplications are the
\* counts of the current statuses of its Applications, however the reads and
\* writes of two recomputes were interleaved.
C18_RecomputesConverge ==
  Quiescent =>
     \A j \in JobIds :
        jobs[j].exists =>
           <<jobs[j].total, jobs[j].accepted, jobs[j].rejected>> = Aggregate(j)

\* C19 (as claimed): in every reachable state the recruiter of every
\* Application whose job exists is the owner of that job.
C19_RecruiterIsJobOwner ==
  \A i \in AppIdx :
     jobs[apps[i].job].exists => apps[i].recruiter = jobs[apps[i].job].company

\* C20 (as claimed): in every reachable state the status of every Application
\* is one of pending, accepted, rejected, withdrawn, whatever value the
\* recruiter's update, the bulk update or the admin override was called with.
C20_StatusInEnum == \A i \in AppIdx : apps[i].status \in Enum

\* the requests that change one job or one Application
Mutations == {"editJob", "deleteJob", "update", "withdraw"}

\* the entity request r names is in the store
Found(r) ==
  IF r.op \in {"editJob", "deleteJob"} THEN jobs[r.jid].exists ELSE r.aid \in AppIdx

\* the entity request r names is in the store and belongs to the caller of r: a
\* job to its company, an Application to its student for a withdraw and to the
\* company of its job for a recruiter's update
OwnedByCaller(r) ==
  /\ Found(r)
  /\ IF r.op \in {"editJob", "deleteJob"} THEN jobs[r.jid].company = r.user
     ELSE IF r.op = "withdraw" THEN apps[r.aid].student = r.user
     ELSE jobs[apps[r.aid].job].exists /\ jobs[apps[r.aid].job].company = r.user

\* the owner of the entity request r names is someone else
OwnedByAnother(r) ==
  /\ Found(r)
  /\ IF r.op \in {"editJob", "deleteJob"} THEN jobs[r.jid].company # r.user
     ELSE IF r.op = "withdraw" THEN apps[r.aid].student # r.user
     ELSE jobs[apps[r.aid].job].exists /\ jobs[apps[r.aid].job].company # r.user

\* a step that answers a request at its first store operation (the slot was
\* free and stays free), so that what the handler read is the state before the
\* step: a missing entity is answered NotFound, the entity of another owner
\* Forbidden, and jobs and Applications stay as they were
C21_RefusedAtFind ==
  (last' # Idle /\ req' = req /\ last'.op \in Mutations) =>
     /\ ~Found(last') => (last'.res = "NotFound" /\ jobs' = jobs /\ apps' = apps)
     /\ OwnedByAnother(last') => (last'.res = "Forbidden" /\ jobs' = jobs /\ apps' = apps)

\* a step in which a request goes on to its write: the handler found the
\* entity and found it owned by the caller
C21_OnlyOwnersGoOn ==
  \A p \in Slots :
     (~Busy(p) /\ req'[p].pc # "idle" /\ req'[p].op \in Mutations) => OwnedByCaller(req'[p])

C22_ResumeSnapshotKept ==
  [][ /\ \A i \in AppIdx : i \in 1..Len(apps') /\ apps'[i].resume = apps[i].resume
      /\ \A p \in Slots :
           Len(apps') > Len(apps) /\ req[p].pc = "insert" /\ req'[p].pc # "insert"
              => apps'[Len(apps')].resume = req[p].resume ]_vars

\* C22 witness: the recruiter's update of an Application has been answered
\* after the student replaced the resume, and the Application holds the
\* resume of the first upload
C22_OldResumeAfterUpdate ==
  /\ last.op = "update" /\ last.res = "Success"
  /\ apps[last.aid].resume = 1
  /\ resume[apps[last.aid].student] = 2

\* C23: an Application is never physically deleted: once created it is in the
\* store in every later state, with its job and its student, whatever follows
\* (withdraw, status changes by recruiter or admin, deactivation or deletion of
\* its job).
C23_NeverDeleted ==
  [][\A i \in AppIdx :
        /\ i \in 1..Len(apps')
        /\ apps'[i].job = apps[i].job
        /\ apps'[i].student = apps[i].student]_vars

\* C23 witness: a withdrawn Application whose job has been deleted is in the
\* store
C23_WithdrawnOfDeletedJob ==
  \E i \in AppIdx : apps[i].status = "withdrawn" /\ ~jobs[apps[i].job].exists

\* C24: the admin override is not subject to the state machine: for an
\* existing Application in any status it sets the status to the requested
\* value among pending, accepted, rejected, withdrawn, never answering
\* InvalidTransition, and it refuses any other value and leaves the
\* Application unchanged.
C24_AdminOverridesAnyStatus ==
  [][(last = Idle /\ last'.op = "admin") =>
        /\ last'.res # "InvalidTransition"
        /\ (last'.st \in Enum /\ last'.aid \in AppIdx) =>
              /\ last'.res = "Success"
              /\ apps' = [apps EXCEPT ![last'.aid].status = last'.st]
        /\ last'.st \notin Enum => (last'.res = "BadRequest" /\ apps' = apps)]_vars

\* C24 witness: the admin has set a withdrawn Application back to pending
C24_WithdrawnMadePending ==
  /\ last.op = "admin" /\ last.res = "Success"
  /\ last.seen = {"withdrawn"}
  /\ apps[last.aid].status = "pending"

\* the three counters of a job document
Counters(job) == <<job.total, job.accepted, job.rejected>>

\* C25 (as claimed): the recruiter's job edit, whatever request body it
\* carries, leaves totalApplications, acceptedApplications and
\* rejectedApplications of every job unchanged.
C25_EditKeepsCounters ==
  [][(last = Idle /\ last'.op = "editJob") =>
        \A j \in JobIds : Counters(jobs'[j]) = Counters(jobs[j])]_vars

\* C26 (as claimed): when a withdraw and the owning recruiter's update to
\* accepted or rejected run concurrently on a pending Application, the write
\* of the withdraw never lands on the recruiter's status: if the recruiter's
\* write came first, the withdraw does not write and the status stays the
\* recruiter's.
C26_WithdrawKeepsRecruiterStatus ==
  [][\A p \in Slots :
        (req[p].op = "withdraw" /\ req[p].pc = "save" /\ req'[p].pc # "save")
           => apps[req[p].aid].status \notin {"accepted", "rejected"}]_vars

\* student s has an Application for job j and it is withdrawn
Withdrawn(j, s) ==
  \E i \in AppIdx : apps[i].job = j /\ apps[i].student = s /\ apps[i].status = "withdrawn"

\* C27 (as claimed): once a student has withdrawn the Application for a job,
\* every later apply by that student to that job fails with
\* DuplicateApplication.
C27_ReapplyIsDuplicate ==
  (last.op = "apply" /\ Withdrawn(last.jid, last.user)) => last.res = "DuplicateApplication"

\* C27 (amended): once a student has withdrawn the Application for a job, every
\* later apply by that student to that job fails and creates nothing: with
\* NotFound, Inactive or DeadlinePassed when the job check fails, which comes
\* first, and with DuplicateApplication otherwise; the pair keeps its one,
\* withdrawn, Application.
C27_ReapplyRefused ==
  /\ Withdrawn("j1", "s1")
  /\ \A i, k \in AppIdx :
        (apps[i].job = apps[k].job /\ apps[i].student = apps[k].student) => i = k
  /\ (last.op = "apply" /\ Withdrawn(last.jid, last.user)) =>
        /\ last.res \in {"NotFound", "Inactive", "DeadlinePassed", "DuplicateApplication"}
        /\ ~last.wrote
        /\ last.res = "DuplicateApplication" <=>
              (last.job.exists /\ last.job.isActive /\ last.at <= last.job.deadline)

\* C27 witness: an apply by the student who withdrew, to the same job, still
\* there, active and before its deadline, was answered DuplicateApplication
C27_ReapplyAfterWithdrawRefused ==
  /\ last.op = "apply" /\ Withdrawn(last.jid, last.user)
  /\ last.job.exists /\ last.job.isActive /\ last.at <= last.job.deadline
  /\ last.res = "DuplicateApplication"

\* C28 (as claimed): a connection is in no room but the channel of its own
\* identity, and every event it has received was published to that channel.
C28_OwnChannelOnly ==
  \A k \in DOMAIN sockets :
     /\ sockets[k].rooms \subseteq {JoinedRoom(sockets[k].user)}
     /\ \A n \in 1..Len(sockets[k].received) :
           Room(sockets[k].received[n]) = JoinedRoom(sockets[k].user)

\* C29 (as claimed): in every reachable state the job of every Application
\* exists, and a recruiter's update of an existing Application was answered
\* with success, NotFound or Forbidden, never with a server error.
C29_JobOfApplicationExists ==
  /\ \A i \in AppIdx : jobs[apps[i].job].exists
  /\ (last.op = "update" /\ last.aid \in AppIdx) =>
        last.res \in {"Success", "NotFound", "Forbidden"}

\* C30 (as claimed): a fetch of an existing Application by the student who
\* created it or by the recruiter recorded on it succeeds and returns the
\* Application; Forbidden goes only to a student or recruiter who is neither.
C30_OwnersFetch ==
  (last.op = "getApplication" /\ last.aid \in AppIdx) =>
     LET mine == last.user \in {apps[last.aid].student, apps[last.aid].recruiter}
     IN /\ mine => (last.res = "Success" /\ last.data = {last.aid})
        /\ last.res = "Forbidden" => ~mine

=============================================================================
